---- MODULE Spec2Model ----
(***************************************************************************)
(* Model of class Rational (src/dz2211.cpp): a fraction held as a signed   *)
(* W-bit numerator and an unsigned W-bit denominator.  The source uses     *)
(* int64_t / uint64_t; the model keeps the same two's-complement layout at *)
(* a reduced width W so that every value of the type can be enumerated.    *)
(*                                                                         *)
(* Arithmetic is modelled as the C++ types make it happen:                 *)
(*   - int64_t (op) uint64_t is carried out in uint64_t, modulo 2^W;       *)
(*   - a uint64_t passed to an int64_t parameter is reinterpreted;         *)
(*   - signed division truncates toward zero;                              *)
(*   - signed overflow (a * b, a + b, -MIN, std::abs(MIN)) is undefined.   *)
(*     The variable fold is the build.  FALSE is a build in which signed   *)
(*     arithmetic wraps (g++ -O0, -fwrapv): every operator below computes  *)
(*     what that build computes.  TRUE is a build whose optimiser assumes  *)
(*     no signed overflow (g++ -O1 .. -O3): a call that meets an overflow  *)
(*     (the ub field of its outcome) has no defined outcome: it returns    *)
(*     what the closing constructor makes of arbitrary integers, or does   *)
(*     not return at all.                                                  *)
(***************************************************************************)
EXTENDS Integers, Sequences, FiniteSets, TLC

\* Width of the integer type, scaled down from 64.
W == 4

Mod == 2 ^ W
Half == 2 ^ (W - 1)
MinS == 0 - Half
MaxS == Half - 1
IntW == MinS .. MaxS

VARIABLES
  fold,  \* the build: TRUE when the optimiser assumes no signed overflow
  pc,    \* position of the caller
  r1,    \* the caller's first Rational
  r2,    \* the caller's second Rational
  op,    \* the last operation called
  x,     \* its left operand (*this)
  y,     \* its right operand (other)
  args,  \* the integer arguments of the last constructor or predicate call
  res,   \* the Rational it returned
  flag,  \* the boolean it returned
  path   \* the branch it returned from

vars == <<fold, pc, r1, r2, op, x, y, args, res, flag, path>>

----------------------------------------------------------------------------
\* Integer conversions and library functions

\* conversion of an integer value to int64_t (two's complement)
ToSigned(v) ==
  LET m == v % Mod IN IF m >= Half THEN m - Mod ELSE m

\* conversion of an integer value to uint64_t
ToUnsigned(v) == v % Mod

\* the mathematical absolute value
AbsVal(v) == IF v < 0 THEN 0 - v ELSE v

\* int64_t / int64_t : truncation toward zero (b # 0, not MinS / -1)
TruncDiv(a, b) ==
  LET q == AbsVal(a) \div AbsVal(b)
  IN  IF (a < 0) = (b < 0) THEN q ELSE 0 - q

\* std::abs(int64_t): the negation of the minimum value wraps to itself
std_abs(v) == IF v < 0 THEN ToSigned(0 - v) ELSE v

RECURSIVE Euclid(_, _)
Euclid(m, n) == IF n = 0 THEN m ELSE Euclid(n, m % n)

\* std::gcd(M, N): gcd of |m| and |n| in the common (unsigned) type
std_gcd(m, n) == Euclid(AbsVal(m), AbsVal(n))

\* the zero value, Rational()
Zero == [num |-> 0, den |-> 1]

\* uint64_t product of two operands after the usual arithmetic conversions
UMul(a, b) == (ToUnsigned(a) * ToUnsigned(b)) % Mod

\* a signed result that does not fit int64_t: the operation is undefined
Overflows(v) == v < MinS \/ v > MaxS

----------------------------------------------------------------------------
\* Overflow predicates (private, static)

\* mul_overflow(int64_t a, int64_t b): the wrapped product divided back
mul_overflow(a, b) ==
  IF a = 0 \/ b = 0 THEN FALSE
  ELSE IF a = MinS /\ b = 0 - 1 THEN TRUE
  ELSE IF b = MinS /\ a = 0 - 1 THEN TRUE
  ELSE TruncDiv(ToSigned(a * b), b) # a

\* mul_overflow: int64_t result = a * b is evaluated before any test of it
mul_overflow_ub(a, b) == a # 0 /\ b # 0 /\ Overflows(a * b)

\* add_overflow(int64_t a, int64_t b): the sign of the wrapped sum
add_overflow(a, b) ==
  LET result == ToSigned(a + b)
  IN  IF a > 0 /\ b > 0 /\ result < 0 THEN TRUE
      ELSE IF a < 0 /\ b < 0 /\ result > 0 THEN TRUE
      ELSE FALSE

\* add_overflow: int64_t result = a + b is evaluated before any test of it
add_overflow_ub(a, b) == Overflows(a + b)

----------------------------------------------------------------------------
\* Construction

\* reduce() that finds the gcd and never divides by it
reduce_keeps_factor(num, den) ==
  IF num = 0 THEN [num |-> 0, den |-> 1]
  ELSE [num |-> num, den |-> den]

\* reduce(), on the fields numerator_ and denominator_
reduce(num, den) ==
  IF num = 0 THEN [num |-> 0, den |-> 1]
  ELSE LET gcd_val == ToSigned(std_gcd(std_abs(num), den))
       IN  [num |-> TruncDiv(num, gcd_val),
            den |-> den \div ToUnsigned(gcd_val)]

\* reduce(): std::abs(numerator_) of the minimum value
reduce_ub(num) == num = MinS

\* Rational(int64_t n)
Ctor1(n) == [num |-> n, den |-> 1]

\* the two-argument constructor without its test for a zero denominator
Ctor2_unguarded(num, denom) ==
  IF denom < 0 THEN reduce(ToSigned(0 - num), ToUnsigned(0 - denom))
  ELSE reduce(num, denom)

\* Rational(int64_t num, int64_t denom)
Ctor2(num, denom) ==
  IF denom = 0 THEN reduce(0, 1)
  ELSE IF denom < 0 THEN reduce(ToSigned(0 - num), ToUnsigned(0 - denom))
  ELSE reduce(num, denom)

\* Rational(num, denom): -num, -denom and reduce() on the minimum value
Ctor2_ub(num, denom) ==
  IF denom = 0 THEN FALSE
  ELSE IF denom < 0
    THEN num = MinS \/ denom = MinS \/ reduce_ub(ToSigned(0 - num))
  ELSE reduce_ub(num)

----------------------------------------------------------------------------
\* Arithmetic.  Each operator gives the value returned (val), the branch it
\* returned from (path) and whether a signed overflow was met (ub).

\* return Rational(n, d), after steps of which u tells an overflow
Ret(n, d, p, u) ==
  [val |-> Ctor2(n, d), path |-> p, ub |-> u \/ Ctor2_ub(n, d)]

\* the unreduced cross-multiplication returned by add_safe on overflow
CrossSum(a, b, u) ==
  Ret(ToSigned(UMul(a.num, b.den) + UMul(b.num, a.den)),
      ToSigned(UMul(a.den, b.den)), "fallback", u)

\* add_safe(a, b)
add_safe(a, b) ==
  LET gcd_denominators == std_gcd(a.den, b.den)
      simp_den1 == a.den \div gcd_denominators
      simp_den2 == b.den \div gcd_denominators
      term1 == ToSigned(UMul(a.num, simp_den2))
      term2 == ToSigned(UMul(b.num, simp_den1))
      u1 == mul_overflow_ub(a.num, ToSigned(simp_den2))
      u2 == u1 \/ mul_overflow_ub(b.num, ToSigned(simp_den1))
      u3 == u2 \/ add_overflow_ub(term1, term2)
  IN  IF mul_overflow(a.num, ToSigned(simp_den2)) THEN CrossSum(a, b, u1)
      ELSE IF mul_overflow(b.num, ToSigned(simp_den1)) THEN CrossSum(a, b, u2)
      ELSE IF add_overflow(term1, term2) THEN CrossSum(a, b, u3)
      ELSE Ret(ToSigned(term1 + term2), ToSigned(UMul(a.den, simp_den2)),
               "safe", u3 \/ Overflows(term1 + term2))

\* operator-() const
negate(a) ==
  Ret(ToSigned(0 - a.num), ToSigned(a.den), "neg", a.num = MinS)

\* operator+(other)
plus(a, b) ==
  LET m1 == mul_overflow(a.num, ToSigned(b.den))
      m2 == mul_overflow(b.num, ToSigned(a.den))
      m3 == mul_overflow(ToSigned(a.den), ToSigned(b.den))
      u1 == mul_overflow_ub(a.num, ToSigned(b.den))
      u2 == u1 \/ (~ m1 /\ mul_overflow_ub(b.num, ToSigned(a.den)))
      u3 == u2 \/ (~ m1 /\ ~ m2 /\
                   mul_overflow_ub(ToSigned(a.den), ToSigned(b.den)))
  IN  IF m1 \/ m2 \/ m3
      THEN LET s == add_safe(a, b) IN [s EXCEPT !.ub = u3 \/ s.ub]
      ELSE Ret(ToSigned(UMul(a.num, b.den) + UMul(b.num, a.den)),
               ToSigned(UMul(a.den, b.den)), "fast", u3)

\* operator-(other)
minus(a, b) ==
  LET n == negate(b)
      s == plus(a, n.val)
  IN  [s EXCEPT !.ub = n.ub \/ s.ub]

\* operator*(other)
times(a, b) ==
  LET m1 == mul_overflow(a.num, b.num)
      m2 == mul_overflow(ToSigned(a.den), ToSigned(b.den))
      u1 == mul_overflow_ub(a.num, b.num)
      u2 == u1 \/ (~ m1 /\ mul_overflow_ub(ToSigned(a.den), ToSigned(b.den)))
  IN  IF m1 \/ m2
      THEN LET gcd1 == std_gcd(std_abs(a.num), b.den)
               gcd2 == std_gcd(std_abs(b.num), a.den)
               a_num == ToSigned(ToUnsigned(a.num) \div gcd1)
               b_den == b.den \div gcd1
               b_num == ToSigned(ToUnsigned(b.num) \div gcd2)
               a_den == a.den \div gcd2
           IN  Ret(ToSigned(a_num * b_num), ToSigned(UMul(a_den, b_den)),
                   "slow",
                   u2 \/ a.num = MinS \/ b.num = MinS
                      \/ Overflows(a_num * b_num))
      ELSE Ret(ToSigned(a.num * b.num), ToSigned(UMul(a.den, b.den)),
               "fast", u2 \/ Overflows(a.num * b.num))

\* operator/ without its test for a zero divisor
over_unguarded(a, b) ==
  LET t == times(a, Ctor2(ToSigned(b.den), b.num))
  IN  [t EXCEPT !.ub = Ctor2_ub(ToSigned(b.den), b.num) \/ t.ub]

\* operator/(other)
over(a, b) ==
  IF b.num = 0
  THEN [val |-> Ctor1(0), path |-> "zero_divisor", ub |-> FALSE]
  ELSE LET t == times(a, Ctor2(ToSigned(b.den), b.num))
       IN  [t EXCEPT !.ub = Ctor2_ub(ToSigned(b.den), b.num) \/ t.ub]

----------------------------------------------------------------------------
\* Comparison

\* operator==
eq(a, b) == a.num = b.num /\ a.den = b.den

\* operator!=
ne(a, b) == ~ eq(a, b)

\* operator<
lt(a, b) == UMul(a.num, b.den) < UMul(b.num, a.den)

\* operator<=
le(a, b) == lt(a, b) \/ eq(a, b)

\* operator>
gt(a, b) == ~ le(a, b)

\* operator>=
ge(a, b) == ~ lt(a, b)

----------------------------------------------------------------------------
\* The caller: constructs two values, then calls the public operations

NoCall ==
  /\ op' = "none" /\ x' = Zero /\ y' = Zero /\ args' = <<0, 0>>
  /\ res' = Zero /\ flag' = FALSE /\ path' = "none"

Init ==
  /\ fold \in BOOLEAN
  /\ pc = "start"
  /\ r1 = Zero /\ r2 = Zero
  /\ op = "none" /\ x = Zero /\ y = Zero /\ args = <<0, 0>>
  /\ res = Zero /\ flag = FALSE /\ path = "none"

\* the build in which signed arithmetic wraps
InitWrap == Init /\ fold = FALSE

\* the values a call can return once its behaviour is undefined
Garbage == { Ctor2(n, d) : n \in IntW, d \in IntW }

\* what a constructor call leaves in the object
Constructed(n, d) ==
  IF fold /\ Ctor2_ub(n, d) THEN Garbage ELSE { Ctor2(n, d) }

\* Rational r1(num1, den1)
ReadFirst ==
  /\ pc = "start"
  /\ \E n \in IntW, d \in IntW : r1' \in Constructed(n, d)
  /\ pc' = "first"
  /\ NoCall
  /\ UNCHANGED <<fold, r2>>

\* Rational r2(num2, den2)
ReadSecond ==
  /\ pc = "first"
  /\ \E n \in IntW, d \in IntW : r2' \in Constructed(n, d)
  /\ pc' = "ready"
  /\ NoCall
  /\ UNCHANGED <<fold, r1>>

\* Rational r2(n)
ReadSecondInt ==
  /\ pc = "first"
  /\ \E n \in IntW : r2' = Ctor1(n)
  /\ pc' = "ready"
  /\ NoCall
  /\ UNCHANGED <<fold, r1>>

\* the call returns out.val; in the optimising build a call that met an
\* overflow has no defined outcome (it returns some value of Garbage, or
\* does not return) and the caller's behaviour is undefined from there on
Outcome(out) ==
  IF fold /\ out.ub
  THEN res' = Zero /\ path' = "undefined" /\ pc' = "undefined"
  ELSE res' = out.val /\ path' = out.path /\ pc' = "done"

\* a call that returns a new Rational and leaves the operands alone
Returned(name, out) ==
  /\ pc = "ready"
  /\ op' = name /\ x' = r1 /\ y' = r2
  /\ Outcome(out)
  /\ UNCHANGED <<fold, r1, r2, args, flag>>

\* a compound assignment: *this = *this (op) other
Assigned(name, out) ==
  /\ pc = "ready"
  /\ op' = name /\ x' = r1 /\ y' = r2
  /\ Outcome(out)
  /\ r1' = (IF pc' = "done" THEN res' ELSE r1)
  /\ UNCHANGED <<fold, r2, args, flag>>

Negate == Returned("neg", negate(r1))
Add == Returned("+", plus(r1, r2))
Sub == Returned("-", minus(r1, r2))
Mul == Returned("*", times(r1, r2))
Div == Returned("/", over(r1, r2))
AddAssign == Assigned("+=", plus(r1, r2))
SubAssign == Assigned("-=", minus(r1, r2))
MulAssign == Assigned("*=", times(r1, r2))
DivAssign == Assigned("/=", over(r1, r2))

\* the caller goes on to its next call
Continue ==
  /\ pc = "done"
  /\ pc' = "ready"
  /\ NoCall
  /\ UNCHANGED <<fold, r1, r2>>

Next ==
  \/ ReadFirst \/ ReadSecond \/ ReadSecondInt
  \/ Negate \/ Add \/ Sub \/ Mul \/ Div
  \/ AddAssign \/ SubAssign \/ MulAssign \/ DivAssign
  \/ Continue

Spec == Init /\ [][Next]_vars

SpecWrap == InitWrap /\ [][Next]_vars

----------------------------------------------------------------------------
\* The caller of the comparison operators

\* a call that returns a boolean
Compared(name, b) ==
  /\ pc = "ready"
  /\ op' = name /\ x' = r1 /\ y' = r2
  /\ flag' = b
  /\ pc' = "done"
  /\ UNCHANGED <<fold, r1, r2, args, res, path>>

Eq == Compared("==", eq(r1, r2))
Ne == Compared("!=", ne(r1, r2))
Lt == Compared("<", lt(r1, r2))
Le == Compared("<=", le(r1, r2))
Gt == Compared(">", gt(r1, r2))
Ge == Compared(">=", ge(r1, r2))

NextCmp ==
  \/ ReadFirst \/ ReadSecond \/ ReadSecondInt
  \/ Eq \/ Ne \/ Lt \/ Le \/ Gt \/ Ge
  \/ Continue

SpecCmp == Init /\ [][NextCmp]_vars

----------------------------------------------------------------------------
\* Calls of a constructor or an overflow predicate on given integers

InitUnit ==
  /\ fold \in BOOLEAN
  /\ pc = "unit"
  /\ r1 = Zero /\ r2 = Zero
  /\ op = "none" /\ x = Zero /\ y = Zero
  /\ args \in IntW \X IntW
  /\ res = Zero /\ flag = FALSE /\ path = "none"

\* the build in which signed arithmetic wraps
InitUnitWrap == InitUnit /\ fold = FALSE

\* the predicate returns b; in the optimising build a call that met an
\* overflow returns either answer
Answer(b, ub) ==
  IF fold /\ ub THEN flag' \in BOOLEAN ELSE flag' = b

CallMulOverflow ==
  /\ pc = "unit"
  /\ op' = "mul_overflow"
  /\ Answer(mul_overflow(args[1], args[2]), mul_overflow_ub(args[1], args[2]))
  /\ pc' = "unitdone"
  /\ UNCHANGED <<fold, r1, r2, x, y, args, res, path>>

CallAddOverflow ==
  /\ pc = "unit"
  /\ op' = "add_overflow"
  /\ Answer(add_overflow(args[1], args[2]), add_overflow_ub(args[1], args[2]))
  /\ pc' = "unitdone"
  /\ UNCHANGED <<fold, r1, r2, x, y, args, res, path>>

Construct2 ==
  /\ pc = "unit"
  /\ op' = "Rational2"
  /\ res' \in Constructed(args[1], args[2])
  /\ pc' = "unitdone"
  /\ UNCHANGED <<fold, r1, r2, x, y, args, flag, path>>

Construct1 ==
  /\ pc = "unit"
  /\ op' = "Rational1"
  /\ res' = Ctor1(args[1])
  /\ pc' = "unitdone"
  /\ UNCHANGED <<fold, r1, r2, x, y, args, flag, path>>

NextUnit == CallMulOverflow \/ CallAddOverflow \/ Construct2 \/ Construct1

SpecUnit == InitUnit /\ [][NextUnit]_vars

SpecUnitWrap == InitUnitWrap /\ [][NextUnit]_vars

----------------------------------------------------------------------------
\* Notions the properties are stated in (mathematical, unbounded integers)

Representable(v) == ~ Overflows(v)

\* the fraction n/d, d > 0, in lowest terms with the zero value 0/1
ExactNorm(n, d) ==
  IF n = 0 THEN [num |-> 0, den |-> 1]
  ELSE LET g == Euclid(AbsVal(n), d)
       IN  [num |-> (IF n < 0 THEN 0 - (AbsVal(n) \div g) ELSE n \div g),
            den |-> d \div g]

\* the invariants of a Rational value
ValidRational(r) ==
  /\ r.num \in IntW
  /\ r.den \in 1 .. (Mod - 1)
  /\ Euclid(AbsVal(r.num), r.den) = 1
  /\ (r.num = 0 => r.den = 1)

\* a call of one of the named operations has returned
Called(names) == pc = "done" /\ op \in names

\* a call of one of the named operations has no defined outcome
Undefined(names) == pc = "undefined" /\ op \in names

\* every value a call without a defined outcome can return is a valid one
GarbageValid == \A g \in Garbage : ValidRational(g)

----------------------------------------------------------------------------
\* C1: every Rational held by the caller or returned by a constructor, by
\* unary minus, by + - * / or by a compound assignment, on any path, has a
\* positive denominator, is in lowest terms, and is 0/1 when it is zero.
C1_Normalized ==
  /\ ValidRational(r1)
  /\ ValidRational(r2)
  /\ ValidRational(res)
  /\ (pc = "undefined" => GarbageValid)

\* C1 witness: a compound product that went through the cross-cancel path
\* with the minimum numerator and left a proper fraction in the caller.
C1_Witness ==
  /\ Called({"*="}) /\ path = "slow"
  /\ x.num = MinS /\ r1 = res /\ res.den > 1

\* C2: a + (-a) is the zero value for every a whose numerator is not the
\* minimum signed value (a - a is a + (-a)).
C2_AdditiveInverse ==
  (Called({"-", "-="}) /\ x = y /\ x.num # MinS) => res = Zero

\* C3: when neither cross product overflows the signed range, a/b < c/d
\* returns true exactly when a*d < c*b.
C3_LessThan ==
  (/\ pc = "done" /\ op = "<"
   /\ Representable(x.num * y.den)
   /\ Representable(y.num * x.den))
  => (flag <=> (x.num * y.den < y.num * x.den))

\* C4: dividing by a value whose numerator is 0 returns 0/1 from the
\* zero-divisor branch, before any multiplication, and a /= z leaves 0/1.
C4_DivideByZero ==
  ((Called({"/", "/="}) \/ Undefined({"/", "/="})) /\ y.num = 0)
  => (/\ pc = "done"
      /\ res = Zero
      /\ path = "zero_divisor"
      /\ (op = "/=" => r1 = Zero))

\* C4 witness: a non-zero value divided in place by a zero value.
C4_Witness ==
  Called({"/="}) /\ y.num = 0 /\ x.num # 0 /\ x.den > 1

\* C5: Rational(n, 0) is the zero value 0/1, equal to Rational(0, 1), for
\* every n.
C5_ZeroDenominator ==
  (pc = "unitdone" /\ op = "Rational2" /\ args[2] = 0)
  => (/\ res.num = 0 /\ res.den = 1
      /\ eq(res, Ctor2(0, 1)))

\* C5 witness: Rational(MIN_SIGNED, 0) was constructed.
C5_Witness ==
  pc = "unitdone" /\ op = "Rational2" /\ args = <<MinS, 0>>

C7_ExactSum ==
  LET g == Euclid(x.den, y.den)
      sd1 == x.den \div g
      sd2 == y.den \div g
      term1 == x.num * sd2
      term2 == y.num * sd1
  IN  (/\ Called({"+", "+="})
       /\ Representable(term1) /\ Representable(term2)
       /\ Representable(term1 + term2)
       /\ Representable(x.den * sd2))
      => (/\ res = ExactNorm(term1 + term2, x.den * sd2)
          /\ path # "fallback")

\* C8: on the cross-cancel path, with g1 = gcd(|a|, d) and g2 = gcd(|c|, b),
\* the result is ((a/g1)*(c/g2)) / ((b/g2)*(d/g1)) in lowest terms, the
\* quotients keeping the signs of a and c, whenever both reduced products
\* are representable.
C8_CrossCancel ==
  LET g1 == Euclid(AbsVal(x.num), y.den)
      g2 == Euclid(AbsVal(y.num), x.den)
      na == TruncDiv(x.num, g1)
      nc == TruncDiv(y.num, g2)
      db == x.den \div g2
      dd == y.den \div g1
  IN  (/\ Called({"*", "*="}) /\ path = "slow"
       /\ Representable(na * nc) /\ Representable(db * dd))
      => res = ExactNorm(na * nc, db * dd)

\* C9: add_overflow(a, b) is true exactly when a + b is outside the signed
\* range.
C9_AddOverflowExact ==
  (pc = "unitdone" /\ op = "add_overflow")
  => (flag <=> ~ Representable(args[1] + args[2]))

====
